---- MODULE Spec2Model ----
(***************************************************************************)
(* Model of the Intel 8080 emulator core of yet-another-emu (src/cpu.py)   *)
(* and of its devices (src/devices.py).                                    *)
(*                                                                         *)
(* The Python object `state` is the record variable `state`; its methods   *)
(* are operators from a State record to an outcome record                  *)
(*     [state |-> State, exc |-> exception name or "none", ret |-> BOOLEAN]*)
(* where `exc` is the Python exception that ended the statement sequence   *)
(* (the state of an outcome with an exception is the partially updated     *)
(* state at the raise) and `ret` says that emulate() left through an       *)
(* explicit `return`, skipping the generic trailer of cpu.py:764.  A       *)
(* statement after one that raised is not executed: its outcome is the     *)
(* outcome of the raise.                                                   *)
(*                                                                         *)
(* Python integers are unbounded, so registers are Int, not 0..255: the    *)
(* code truncates only where it masks.  Python booleans are the integers   *)
(* 1 and 0 (True == 1, False == 0), which is how the flags are modelled.   *)
(* memory is a bytearray: index i in -len..-1 addresses cell len+i, an     *)
(* index outside -len..len-1 raises IndexError and a stored value outside  *)
(* 0..255 raises ValueError (checked before the index, CPython 3.11).      *)
(***************************************************************************)
EXTENDS Integers, Sequences, FiniteSets, TLC

(***************************************************************************)
(* Bounds of the model.                                                    *)
(***************************************************************************)
\* size of the zeroed region appended to the ROM (bytearray(0x2000) in the
\* code); scaled down so that the memory fits a model state
RamSize == 8
\* the main loop is explored while the cycle counter is below this cap
MaxCycles == 150
\* the same cap for the runs that reach the display's refresh threshold
MaxFrameCycles == 33500
\* number of executed instructions remembered in hist
HistLen == 8

(***************************************************************************)
(* Python integer operators.                                               *)
(***************************************************************************)
\* True/False as the integers 1/0
B(p) == IF p THEN 1 ELSE 0

\* x << n
Shl(x, n) == x * (2 ^ n)

\* x >> n (arithmetic: floor division)
Shr(x, n) == x \div (2 ^ n)

\* x & y for y >= 0 and any x (two's complement of unbounded width)
RECURSIVE BitAnd(_, _)
BitAnd(x, y) ==
    IF y = 0 \/ x = 0 THEN 0
    ELSE (x % 2) * (y % 2) + 2 * BitAnd(x \div 2, y \div 2)

\* x | y for x, y >= 0
RECURSIVE BitOr(_, _)
BitOr(x, y) ==
    IF x = 0 THEN y
    ELSE IF y = 0 THEN x
    ELSE (IF x % 2 = 1 \/ y % 2 = 1 THEN 1 ELSE 0) + 2 * BitOr(x \div 2, y \div 2)

\* x ^ y for x, y >= 0
RECURSIVE BitXor(_, _)
BitXor(x, y) ==
    IF x = 0 THEN y
    ELSE IF y = 0 THEN x
    ELSE ((x + y) % 2) + 2 * BitXor(x \div 2, y \div 2)

(***************************************************************************)
(* Module-level helpers of cpu.py.                                         *)
(***************************************************************************)
merge_bytes(high, low) == BitOr(Shl(high, 8), low)

extract_bytes(adr) == <<BitAnd(Shr(adr, 8), 255), BitAnd(adr, 255)>>

parity(n) == B(n % 2 = 0)

\* Flags.__init__
Flags == [z |-> 0, s |-> 0, p |-> 0, cy |-> 0, ac |-> 0]

\* Flags.__int__
FlagsInt(cc) ==
    BitOr(BitOr(BitOr(BitOr(cc.z, Shl(cc.s, 1)), Shl(cc.p, 2)), Shl(cc.cy, 3)), Shl(cc.ac, 4))

\* State.cc setter: unpack a byte into the five flags
CcSet(val) ==
    [z  |-> B(1 = BitAnd(val, 1)),
     s  |-> B(2 = BitAnd(val, 2)),
     p  |-> B(4 = BitAnd(val, 4)),
     cy |-> B(8 = BitAnd(val, 8)),
     ac |-> B(16 = BitAnd(val, 16))]

\* bytearray(n): n zero bytes
RECURSIVE Zeros(_)
Zeros(n) == IF n <= 0 THEN <<>> ELSE <<0>> \o Zeros(n - 1)

\* State.__init__: ROM followed by the zeroed RAM, everything else zero
NewState(rom) ==
    [memory |-> rom \o Zeros(RamSize),
     a |-> 0, cc |-> Flags,
     b |-> 0, c |-> 0, d |-> 0, e |-> 0, h |-> 0, l |-> 0,
     sp |-> 0, pc |-> 0, int_enable |-> 0, cycles |-> 0]

(***************************************************************************)
(* Outcomes of statement sequences.                                        *)
(***************************************************************************)
Ok(st) == [state |-> st, exc |-> "none", ret |-> FALSE]

Raise(st, e) == [state |-> st, exc |-> e, ret |-> FALSE]

\* an explicit `return` inside emulate()
Return(st) == [state |-> st, exc |-> "none", ret |-> TRUE]

\* `return` after the statements of outcome o
Returning(o) == IF o.exc = "none" THEN Return(o.state) ELSE o

\* the statement sequence of outcome o ended in an exception
Failed(o) == o.exc /= "none"

(***************************************************************************)
(* bytearray indexing.                                                     *)
(***************************************************************************)
MemLen(st) == Len(st.memory)

ValidIndex(st, i) == i >= -MemLen(st) /\ i < MemLen(st)

\* position of memory[i] in the sequence, for a valid index
Pos(st, i) == (IF i < 0 THEN i + MemLen(st) ELSE i) + 1

\* memory[i] for a valid index
Mem(st, i) == st.memory[Pos(st, i)]

\* memory[i] = v
SetItem(st, i, v) ==
    IF v < 0 \/ v > 255 THEN Raise(st, "ValueError")
    ELSE IF ~ValidIndex(st, i) THEN Raise(st, "IndexError")
    ELSE Ok([st EXCEPT !.memory[Pos(st, i)] = v])

(***************************************************************************)
(* Register access by name: getattr / setattr with the pair properties.    *)
(***************************************************************************)
\* property psw
psw(st) == merge_bytes(st.a, FlagsInt(st.cc))

\* properties bc, de, hl
bc(st) == merge_bytes(st.b, st.c)

de(st) == merge_bytes(st.d, st.e)

hl(st) == merge_bytes(st.h, st.l)

GetAttr(st, reg) ==
    CASE reg = "a" -> st.a
      [] reg = "b" -> st.b
      [] reg = "c" -> st.c
      [] reg = "d" -> st.d
      [] reg = "e" -> st.e
      [] reg = "h" -> st.h
      [] reg = "l" -> st.l
      [] reg = "sp" -> st.sp
      [] reg = "pc" -> st.pc
      [] reg = "bc" -> bc(st)
      [] reg = "de" -> de(st)
      [] reg = "hl" -> hl(st)
      [] reg = "psw" -> psw(st)

SetAttr(st, reg, val) ==
    CASE reg = "a" -> [st EXCEPT !.a = val]
      [] reg = "b" -> [st EXCEPT !.b = val]
      [] reg = "c" -> [st EXCEPT !.c = val]
      [] reg = "d" -> [st EXCEPT !.d = val]
      [] reg = "e" -> [st EXCEPT !.e = val]
      [] reg = "h" -> [st EXCEPT !.h = val]
      [] reg = "l" -> [st EXCEPT !.l = val]
      [] reg = "sp" -> [st EXCEPT !.sp = val]
      [] reg = "pc" -> [st EXCEPT !.pc = val]
      [] reg = "bc" -> [st EXCEPT !.b = extract_bytes(val)[1], !.c = extract_bytes(val)[2]]
      [] reg = "de" -> [st EXCEPT !.d = extract_bytes(val)[1], !.e = extract_bytes(val)[2]]
      [] reg = "hl" -> [st EXCEPT !.h = extract_bytes(val)[1], !.l = extract_bytes(val)[2]]
      [] reg = "psw" -> [st EXCEPT !.a = extract_bytes(val)[1],
                                   !.cc = CcSet(extract_bytes(val)[2])]

AddCycles(st, n) == [st EXCEPT !.cycles = @ + n]

(***************************************************************************)
(* Methods of State.                                                       *)
(***************************************************************************)
\* calc_flags testing the untruncated answer for zero
calcFlagsUntruncatedZero(st, ans, single) ==
    LET mask == IF single THEN 255 ELSE 65535
    IN  [st EXCEPT !.cc.z = B(ans = 0),
                   !.cc.s = B(BitAnd(ans, mask - Shr(mask, 1)) /= 0),
                   !.cc.cy = B(ans > mask),
                   !.cc.p = parity(BitAnd(ans, mask))]

calc_flags(st, ans, single) ==
    LET mask == IF single THEN 255 ELSE 65535
    IN  [st EXCEPT !.cc.z = B(BitAnd(ans, mask) = 0),
                   !.cc.s = B(BitAnd(ans, mask - Shr(mask, 1)) /= 0),
                   !.cc.cy = B(ans > mask),
                   !.cc.p = parity(BitAnd(ans, mask))]

\* a NOP that takes no cycles
nopWithoutCycles(st) == Ok(st)

nop(st) == Ok(AddCycles(st, 4))

\* push with the two bytes stored in each other's cell
pushSwapped(st, reg) ==
    LET hilo == extract_bytes(GetAttr(st, reg))
        o1 == SetItem(st, st.sp - 1, hilo[2])
        o2 == IF Failed(o1) THEN o1 ELSE SetItem(o1.state, o1.state.sp - 2, hilo[1])
    IN  IF Failed(o2) THEN o2
        ELSE Ok(AddCycles([o2.state EXCEPT !.sp = @ - 2], 11))

push(st, reg) ==
    LET hilo == extract_bytes(GetAttr(st, reg))
        o1 == SetItem(st, st.sp - 1, hilo[1])
        o2 == IF Failed(o1) THEN o1 ELSE SetItem(o1.state, o1.state.sp - 2, hilo[2])
    IN  IF Failed(o2) THEN o2
        ELSE Ok(AddCycles([o2.state EXCEPT !.sp = @ - 2], 11))

pop(st, reg) ==
    IF ~ValidIndex(st, st.sp + 1) \/ ~ValidIndex(st, st.sp) THEN Raise(st, "IndexError")
    ELSE LET s1 == SetAttr(st, reg, merge_bytes(Mem(st, st.sp + 1), Mem(st, st.sp)))
         IN  Ok(AddCycles([s1 EXCEPT !.sp = @ + 2], 10))

lxi(st, reg, high, low) ==
    LET s1 == SetAttr(st, reg, merge_bytes(high, low))
    IN  Ok(AddCycles([s1 EXCEPT !.pc = @ + 2], 10))

\* dcr() that truncates modulo 255
dcrModulo255(st, reg) ==
    IF reg = "m"
    THEN IF ~ValidIndex(st, hl(st)) THEN Raise(st, "IndexError")
         ELSE LET ans == Mem(st, hl(st)) - 1
                  s1 == calc_flags(st, ans, TRUE)
                  o2 == SetItem(s1, hl(s1), ans % 255)
              IN  IF Failed(o2) THEN o2 ELSE Ok(AddCycles(o2.state, 10))
    ELSE LET ans == GetAttr(st, reg) - 1
             s1 == calc_flags(st, ans, TRUE)
         IN  Ok(AddCycles(SetAttr(s1, reg, ans % 255), 5))

dcr(st, reg) ==
    IF reg = "m"
    THEN IF ~ValidIndex(st, hl(st)) THEN Raise(st, "IndexError")
         ELSE LET ans == Mem(st, hl(st)) - 1
                  s1 == calc_flags(st, ans, TRUE)
                  o2 == SetItem(s1, hl(s1), BitAnd(ans, 255))
              IN  IF Failed(o2) THEN o2 ELSE Ok(AddCycles(o2.state, 10))
    ELSE LET ans == GetAttr(st, reg) - 1
             s1 == calc_flags(st, ans, TRUE)
         IN  Ok(AddCycles(SetAttr(s1, reg, BitAnd(ans, 255)), 5))

mvi(st, reg, val) ==
    IF reg = "m"
    THEN LET o1 == SetItem(st, hl(st), val)
         IN  IF Failed(o1) THEN o1
             ELSE Ok([AddCycles(o1.state, 10) EXCEPT !.pc = @ + 1])
    ELSE Ok([AddCycles(SetAttr(st, reg, val), 7) EXCEPT !.pc = @ + 1])

\* dad comparing the sum with 0xffff after truncating it
dadCarryAfterTruncation(st, reg) ==
    LET ans == BitAnd(hl(st) + GetAttr(st, reg), 65535)
        s1 == [st EXCEPT !.cc.cy = B(ans > 65535)]
    IN  Ok(AddCycles(SetAttr(s1, "hl", ans), 10))

dad(st, reg) ==
    LET ans == hl(st) + GetAttr(st, reg)
        s1 == [st EXCEPT !.cc.cy = B(ans > 65535)]
    IN  Ok(AddCycles(SetAttr(s1, "hl", ans), 10))

inx(st, reg) ==
    LET ans == GetAttr(st, reg) + 1
        s1 == calc_flags(st, ans, FALSE)
    IN  Ok(AddCycles(SetAttr(s1, reg, BitAnd(ans, 65535)), 5))

dcx(st, reg) ==
    LET ans == GetAttr(st, reg) - 1
        s1 == calc_flags(st, ans, FALSE)
    IN  Ok(AddCycles(SetAttr(s1, reg, BitAnd(ans, 65535)), 5))

inr(st, reg) ==
    LET ans == GetAttr(st, reg) + 1
        s1 == calc_flags(st, ans, TRUE)
    IN  Ok(AddCycles(SetAttr(s1, reg, BitAnd(ans, 255)), 5))

add(st, reg) ==
    IF reg = "m"
    THEN IF ~ValidIndex(st, hl(st)) THEN Raise(st, "IndexError")
         ELSE LET ans == st.a + Mem(st, hl(st))
                  s1 == calc_flags(AddCycles(st, 7), ans, TRUE)
              IN  Ok([s1 EXCEPT !.a = BitAnd(ans, 255)])
    ELSE LET ans == st.a + GetAttr(st, reg)
             s1 == calc_flags(AddCycles(st, 4), ans, TRUE)
         IN  Ok([s1 EXCEPT !.a = BitAnd(ans, 255)])

ana(st, reg) ==
    IF reg = "m"
    THEN IF ~ValidIndex(st, hl(st)) THEN Raise(st, "IndexError")
         ELSE LET ans == BitAnd(st.a, Mem(st, hl(st)))
                  s1 == calc_flags(AddCycles(st, 7), ans, TRUE)
              IN  Ok([s1 EXCEPT !.a = BitAnd(ans, 255)])
    ELSE LET ans == BitAnd(st.a, GetAttr(st, reg))
             s1 == calc_flags(AddCycles(st, 4), ans, TRUE)
         IN  Ok([s1 EXCEPT !.a = BitAnd(ans, 255)])

ora(st, reg) ==
    IF reg = "m"
    THEN IF ~ValidIndex(st, hl(st)) THEN Raise(st, "IndexError")
         ELSE LET ans == BitOr(st.a, Mem(st, hl(st)))
                  s1 == calc_flags(AddCycles(st, 7), ans, TRUE)
              IN  Ok([s1 EXCEPT !.a = BitAnd(ans, 255)])
    ELSE LET ans == BitOr(st.a, GetAttr(st, reg))
             s1 == calc_flags(AddCycles(st, 4), ans, TRUE)
         IN  Ok([s1 EXCEPT !.a = BitAnd(ans, 255)])

xra(st, reg) ==
    IF reg = "m"
    THEN IF ~ValidIndex(st, hl(st)) THEN Raise(st, "IndexError")
         ELSE LET ans == BitXor(st.a, Mem(st, hl(st)))
                  s1 == calc_flags(AddCycles(st, 7), ans, TRUE)
              IN  Ok([s1 EXCEPT !.a = BitAnd(ans, 255)])
    ELSE LET ans == BitXor(st.a, GetAttr(st, reg))
             s1 == calc_flags(AddCycles(st, 4), ans, TRUE)
         IN  Ok([s1 EXCEPT !.a = BitAnd(ans, 255)])

stax(st, reg) ==
    LET o1 == SetItem(st, GetAttr(st, reg), st.a)
    IN  IF Failed(o1) THEN o1 ELSE Ok(AddCycles(o1.state, 7))

\* rst() that pushes the address after the current PC
rstPushesNextAddress(st, i) ==
    LET o1 == push([st EXCEPT !.int_enable = 0, !.pc = @ + 1], "pc")
    IN  IF Failed(o1) THEN o1
        ELSE Ok(AddCycles([o1.state EXCEPT !.pc = 8 * i], 11))

\* rst() that leaves the interrupt-enable flag alone
rstKeepsInterruptsEnabled(st, i) ==
    LET o1 == push(st, "pc")
    IN  IF Failed(o1) THEN o1
        ELSE Ok(AddCycles([o1.state EXCEPT !.pc = 8 * i], 11))

rst(st, i) ==
    LET o1 == push([st EXCEPT !.int_enable = 0], "pc")
    IN  IF Failed(o1) THEN o1
        ELSE Ok(AddCycles([o1.state EXCEPT !.pc = 8 * i], 11))

(***************************************************************************)
(* emulate(): the dispatcher.                                              *)
(***************************************************************************)
\* register-to-register MOV: dst = src, 5 cycles
MovReg(st, dst, src) == Ok(AddCycles(SetAttr(st, dst, GetAttr(st, src)), 5))

\* MOV r, M: r = memory[hl], 7 cycles
MovFromM(st, dst) ==
    IF ~ValidIndex(st, hl(st)) THEN Raise(st, "IndexError")
    ELSE Ok(AddCycles(SetAttr(st, dst, Mem(st, hl(st))), 7))

\* LDAX rp: a = memory[rp], 7 cycles
Ldax(st, reg) ==
    IF ~ValidIndex(st, GetAttr(st, reg)) THEN Raise(st, "IndexError")
    ELSE Ok(AddCycles([st EXCEPT !.a = Mem(st, GetAttr(st, reg))], 7))

\* pc = merge_bytes(memory[sp + 1], memory[sp]); sp += 2
PopPc(st) ==
    IF ~ValidIndex(st, st.sp + 1) \/ ~ValidIndex(st, st.sp) THEN Raise(st, "IndexError")
    ELSE Ok([st EXCEPT !.pc = merge_bytes(Mem(st, st.sp + 1), Mem(st, st.sp)),
                       !.sp = @ + 2])

\* conditional jump: 10 cycles, then the target and return, or pc += 2
Jcc(st, taken, arg1, arg2) ==
    LET s1 == AddCycles(st, 10)
    IN  IF taken THEN Return([s1 EXCEPT !.pc = merge_bytes(arg2, arg1)])
        ELSE Ok([s1 EXCEPT !.pc = @ + 2])

\* CALL that pushes the address of the CALL itself as the return address
CallPushesPc(st, arg1, arg2) ==
    LET hilo == extract_bytes(st.pc)
        o1 == SetItem(st, st.sp - 1, hilo[1])
        o2 == IF Failed(o1) THEN o1 ELSE SetItem(o1.state, o1.state.sp - 2, hilo[2])
    IN  IF Failed(o2) THEN o2
        ELSE Return(AddCycles([o2.state EXCEPT !.sp = @ - 2,
                                               !.pc = merge_bytes(arg2, arg1)], 17))

\* CALL adr (0xcd): push pc + 3, jump, return
Call(st, arg1, arg2) ==
    LET hilo == extract_bytes(st.pc + 3)
        o1 == SetItem(st, st.sp - 1, hilo[1])
        o2 == IF Failed(o1) THEN o1 ELSE SetItem(o1.state, o1.state.sp - 2, hilo[2])
    IN  IF Failed(o2) THEN o2
        ELSE Return(AddCycles([o2.state EXCEPT !.sp = @ - 2,
                                               !.pc = merge_bytes(arg2, arg1)], 17))

\* DAA (0x27): `ans` is bound only inside the second conditional
Daa(st) ==
    LET lsb == BitAnd(st.a, 15)
        s1 == IF lsb > 9 \/ st.cc.ac /= 0 THEN [st EXCEPT !.a = BitOr(@, 6)] ELSE st
        s2 == [s1 EXCEPT !.cc.ac = B(lsb + 6 > 15)]
        hsb == Shr(s2.a, 4)
    IN  IF hsb > 9 \/ s2.cc.cy /= 0
        THEN LET ans == BitAnd(BitOr(s2.a, 96), 255)
                 s3 == IF ans > 255 THEN [s2 EXCEPT !.cc.cy = 1] ELSE s2
             IN  Ok(AddCycles([s3 EXCEPT !.cc.p = parity(ans),
                                         !.cc.z = B(ans = 0),
                                         !.cc.s = B(BitAnd(ans, 128) /= 0)], 4))
        ELSE Raise(s2, "UnboundLocalError")

\* XTHL (0xe3): two tuple assignments, each reading memory before writing
Xthl(st) ==
    IF ~ValidIndex(st, st.sp) THEN Raise(st, "IndexError")
    ELSE LET o2 == SetItem([st EXCEPT !.l = Mem(st, st.sp)], st.sp, st.l)
         IN  IF Failed(o2) THEN o2
             ELSE IF ~ValidIndex(o2.state, o2.state.sp + 1) THEN Raise(o2.state, "IndexError")
             ELSE LET s2 == o2.state
                      o4 == SetItem([s2 EXCEPT !.h = Mem(s2, s2.sp + 1)], s2.sp + 1, s2.h)
                  IN  IF Failed(o4) THEN o4 ELSE Ok(AddCycles(o4.state, 18))

\* a CPI that stores the difference in the accumulator, as a subtraction does
CpiStoresDifference(st, arg1) ==
    LET x == st.a - arg1
    IN  Ok(AddCycles([st EXCEPT !.cc.z = B(BitAnd(x, 255) = 0),
                                !.cc.s = B(BitAnd(x, 128) /= 0),
                                !.cc.p = parity(BitAnd(x, 255)),
                                !.cc.cy = B(st.a < arg1),
                                !.a = BitAnd(x, 255),
                                !.pc = @ + 1], 7))

\* CPI (0xfe): compare the accumulator with the operand byte
Cpi(st, arg1) ==
    LET x == st.a - arg1
    IN  Ok(AddCycles([st EXCEPT !.cc.z = B(BitAnd(x, 255) = 0),
                                !.cc.s = B(BitAnd(x, 128) /= 0),
                                !.cc.p = parity(BitAnd(x, 255)),
                                !.cc.cy = B(st.a < arg1),
                                !.pc = @ + 1], 7))

\* an unmapped opcode passed over like a NOP instead of raising
UnmappedIgnored(st) == Ok(AddCycles(st, 4))

\* the else branch of emulate(): raise NotImplementedError
Unmapped(st) == Raise(st, "NotImplementedError")

\* the opcodes the if/elif chain of emulate() maps
MappedOpcodes ==
    {0, 1, 2, 3, 4, 5, 6, 7, 9, 10, 11, 12, 13, 14, 15, 17, 18, 19, 20, 21, 22,
     23, 25, 26, 27, 28, 29, 30, 31, 33, 34, 35, 36, 37, 38, 39, 41, 46, 47, 49,
     50, 53, 54, 55, 58, 61, 62, 65, 66, 67, 70, 79, 86, 87, 94, 95, 102, 103,
     111, 119, 121, 122, 123, 124, 125, 126, 128, 129, 134, 167, 175, 176, 179,
     182, 193, 194, 195, 197, 198, 200, 201, 202, 205, 207, 209, 210, 211, 213,
     215, 216, 218, 219, 225, 227, 229, 230, 233, 235, 241, 245, 251, 254}

\* the if/elif chain of emulate(), without the trailer; inval is the byte
\* bus.read(arg1) returns
Dispatch(st, opcode, arg1, arg2, inval) ==
    CASE opcode = 0 -> nop(st)                                  \* 0x00 NOP
      [] opcode = 1 -> lxi(st, "bc", arg2, arg1)                \* 0x01 LXI B
      [] opcode = 2 -> stax(st, "bc")                           \* 0x02 STAX B
      [] opcode = 3 -> inx(st, "bc")                            \* 0x03 INX B
      [] opcode = 4 -> inr(st, "b")                             \* 0x04 INR B
      [] opcode = 5 -> dcr(st, "b")                             \* 0x05 DCR B
      [] opcode = 6 -> mvi(st, "b", arg1)                       \* 0x06 MVI B
      [] opcode = 7 ->                                          \* 0x07 RLC
            LET hh == BitAnd(st.a, 128)
            IN  Ok(AddCycles([st EXCEPT !.cc.cy = hh,
                                        !.a = BitOr(Shl(st.a, 1), hh)], 4))
      [] opcode = 9 -> dad(st, "bc")                            \* 0x09 DAD B
      [] opcode = 10 -> Ldax(st, "bc")                          \* 0x0a LDAX B
      [] opcode = 11 -> dcx(st, "bc")                           \* 0x0b DCX B
      [] opcode = 12 -> inr(st, "c")                            \* 0x0c INR C
      [] opcode = 13 -> dcr(st, "c")                            \* 0x0d DCR C
      [] opcode = 14 -> mvi(st, "c", arg1)                      \* 0x0e MVI C
      [] opcode = 15 ->                                         \* 0x0f RRC
            LET x == st.a
            IN  Ok(AddCycles([st EXCEPT !.a = BitOr(Shl(BitAnd(x, 1), 7), Shr(x, 1)),
                                        !.cc.cy = B(BitAnd(x, 1) = 1)], 4))
      [] opcode = 17 -> lxi(st, "de", arg2, arg1)               \* 0x11 LXI D
      [] opcode = 18 -> stax(st, "de")                          \* 0x12 STAX D
      [] opcode = 19 -> inx(st, "de")                           \* 0x13 INX D
      [] opcode = 20 -> inr(st, "d")                            \* 0x14 INR D
      [] opcode = 21 -> dcr(st, "d")                            \* 0x15 DCR D
      [] opcode = 22 -> Raise(st, "TypeError")                  \* 0x16 MVI D: mvi('d') lacks val
      [] opcode = 23 ->                                         \* 0x17 RAL
            LET x == st.a
            IN  Ok(AddCycles([st EXCEPT !.a = BitOr(Shl(x, 1), st.cc.cy),
                                        !.cc.cy = B(BitAnd(x, 128) = 1)], 4))
      [] opcode = 25 -> dad(st, "de")                           \* 0x19 DAD D
      [] opcode = 26 -> Ldax(st, "de")                          \* 0x1a LDAX D
      [] opcode = 27 -> dcx(st, "de")                           \* 0x1b DCX D
      [] opcode = 28 -> inr(st, "e")                            \* 0x1c INR E
      [] opcode = 29 -> dcr(st, "e")                            \* 0x1d DCR E
      [] opcode = 30 -> mvi(st, "e", arg1)                      \* 0x1e MVI E
      [] opcode = 31 ->                                         \* 0x1f RAR
            LET x == st.a
            IN  Ok(AddCycles([st EXCEPT !.a = BitOr(Shl(st.cc.cy, 7), Shr(x, 1)),
                                        !.cc.cy = B(BitAnd(x, 1) = 1)], 4))
      [] opcode = 33 -> lxi(st, "hl", arg2, arg1)               \* 0x21 LXI H
      [] opcode = 34 ->                                         \* 0x22 SHLD
            LET adr == merge_bytes(arg2, arg1)
                o1 == SetItem(st, adr, st.l)
                o2 == IF Failed(o1) THEN o1 ELSE SetItem(o1.state, adr + 1, o1.state.h)
            IN  IF Failed(o2) THEN o2
                ELSE Ok([AddCycles(o2.state, 16) EXCEPT !.pc = @ + 2])
      [] opcode = 35 -> inx(st, "hl")                           \* 0x23 INX H
      [] opcode = 36 -> inr(st, "h")                            \* 0x24 INR H
      [] opcode = 37 -> dcr(st, "h")                            \* 0x25 DCR H
      [] opcode = 38 -> mvi(st, "h", arg1)                      \* 0x26 MVI H
      [] opcode = 39 -> Daa(st)                                 \* 0x27 DAA
      [] opcode = 41 -> dad(st, "hl")                           \* 0x29 DAD H
      [] opcode = 46 -> mvi(st, "l", arg1)                      \* 0x2e MVI L
      [] opcode = 47 ->                                         \* 0x2f CMA
            Ok(AddCycles([st EXCEPT !.a = BitXor(@, 255)], 4))
      [] opcode = 49 -> lxi(st, "sp", arg2, arg1)               \* 0x31 LXI SP
      [] opcode = 50 ->                                         \* 0x32 STA
            LET o1 == SetItem(st, merge_bytes(arg2, arg1), st.a)
            IN  IF Failed(o1) THEN o1
                ELSE Ok(AddCycles([o1.state EXCEPT !.pc = @ + 2], 13))
      [] opcode = 53 -> dcr(st, "m")                            \* 0x35 DCR M
      [] opcode = 54 -> mvi(st, "m", arg1)                      \* 0x36 MVI M
      [] opcode = 55 ->                                         \* 0x37 STC
            Ok(AddCycles([st EXCEPT !.cc.cy = 1], 4))
      [] opcode = 58 ->                                         \* 0x3a LDA
            LET adr == merge_bytes(arg2, arg1)
            IN  IF ~ValidIndex(st, adr) THEN Raise(st, "IndexError")
                ELSE Ok(AddCycles([st EXCEPT !.a = Mem(st, adr), !.pc = @ + 2], 13))
      [] opcode = 61 -> dcr(st, "a")                            \* 0x3d DCR A
      [] opcode = 62 -> mvi(st, "a", arg1)                      \* 0x3e MVI A
      [] opcode = 65 -> MovReg(st, "b", "c")                    \* 0x41 MOV B,C
      [] opcode = 66 -> MovReg(st, "b", "d")                    \* 0x42 MOV B,D
      [] opcode = 67 -> MovReg(st, "b", "e")                    \* 0x43 MOV B,E
      [] opcode = 70 -> MovFromM(st, "b")                       \* 0x46 MOV B,M
      [] opcode = 79 -> MovReg(st, "c", "a")                    \* 0x4f MOV C,A
      [] opcode = 86 -> MovFromM(st, "d")                       \* 0x56 MOV D,M
      [] opcode = 87 -> MovReg(st, "d", "a")                    \* 0x57 MOV D,A
      [] opcode = 94 -> MovFromM(st, "e")                       \* 0x5e MOV E,M
      [] opcode = 95 -> MovReg(st, "e", "a")                    \* 0x5f MOV E,A
      [] opcode = 102 -> MovFromM(st, "h")                      \* 0x66 MOV H,M
      [] opcode = 103 -> MovReg(st, "h", "a")                   \* 0x67 MOV H,A
      [] opcode = 111 -> MovReg(st, "l", "a")                   \* 0x6f MOV L,A
      [] opcode = 119 ->                                        \* 0x77 MOV M,A
            LET o1 == SetItem(st, hl(st), st.a)
            IN  IF Failed(o1) THEN o1 ELSE Ok(AddCycles(o1.state, 7))
      [] opcode = 121 -> MovReg(st, "a", "c")                   \* 0x79 MOV A,C
      [] opcode = 122 -> MovReg(st, "a", "d")                   \* 0x7a MOV A,D
      [] opcode = 123 -> MovReg(st, "a", "e")                   \* 0x7b MOV A,E
      [] opcode = 124 -> MovReg(st, "a", "h")                   \* 0x7c MOV A,H
      [] opcode = 125 -> MovReg(st, "a", "l")                   \* 0x7d MOV A,L
      [] opcode = 126 -> MovFromM(st, "a")                      \* 0x7e MOV A,M
      [] opcode = 128 -> add(st, "b")                           \* 0x80 ADD B
      [] opcode = 129 -> add(st, "c")                           \* 0x81 ADD C
      [] opcode = 134 -> add(st, "m")                           \* 0x86 ADD M
      [] opcode = 167 -> ana(st, "a")                           \* 0xa7 ANA A
      [] opcode = 175 -> xra(st, "a")                           \* 0xaf XRA A
      [] opcode = 176 -> ora(st, "b")                           \* 0xb0 ORA B
      [] opcode = 179 -> ora(st, "e")                           \* 0xb3 ORA E
      [] opcode = 182 -> ora(st, "m")                           \* 0xb6 ORA M
      [] opcode = 193 -> pop(st, "bc")                          \* 0xc1 POP B
      [] opcode = 194 -> Jcc(st, st.cc.z = 0, arg1, arg2)       \* 0xc2 JNZ
      [] opcode = 195 ->                                        \* 0xc3 JMP
            Return(AddCycles([st EXCEPT !.pc = merge_bytes(arg2, arg1)], 10))
      [] opcode = 197 -> push(st, "bc")                         \* 0xc5 PUSH B
      [] opcode = 198 ->                                        \* 0xc6 ADI
            LET ans == st.a + arg1
            IN  Ok(AddCycles([st EXCEPT !.cc.z = B(BitAnd(ans, 255) = 0),
                                        !.cc.s = B(BitAnd(ans, 128) /= 0),
                                        !.cc.cy = B(ans > 255),
                                        !.cc.p = parity(BitAnd(ans, 255)),
                                        !.a = BitAnd(ans, 255),
                                        !.pc = @ + 1], 7))
      [] opcode = 200 ->                                        \* 0xc8 RZ
            IF st.cc.z /= 0
            THEN LET o1 == PopPc(st)
                 IN  IF Failed(o1) THEN o1 ELSE Return(AddCycles(o1.state, 11))
            ELSE Ok(AddCycles(st, 5))
      [] opcode = 201 ->                                        \* 0xc9 RET
            LET o1 == PopPc(st)
            IN  IF Failed(o1) THEN o1 ELSE Return(AddCycles(o1.state, 10))
      [] opcode = 202 -> Jcc(st, st.cc.z /= 0, arg1, arg2)      \* 0xca JZ
      [] opcode = 205 -> Call(st, arg1, arg2)                   \* 0xcd CALL
      [] opcode = 207 -> Returning(rst(st, 1))                  \* 0xcf RST 1
      [] opcode = 209 -> pop(st, "de")                          \* 0xd1 POP D
      [] opcode = 210 -> Jcc(st, st.cc.cy = 0, arg1, arg2)      \* 0xd2 JNC
      [] opcode = 211 ->                                        \* 0xd3 OUT
            Ok(AddCycles([st EXCEPT !.pc = @ + 1], 10))
      [] opcode = 213 -> push(st, "de")                         \* 0xd5 PUSH D
      [] opcode = 215 -> Returning(rst(st, 2))                  \* 0xd7 RST 2
      [] opcode = 216 ->                                        \* 0xd8 RC
            IF st.cc.cy /= 0
            THEN Returning(PopPc(AddCycles(st, 11)))
            ELSE Ok(AddCycles(st, 5))
      [] opcode = 218 -> Jcc(st, st.cc.cy /= 0, arg1, arg2)     \* 0xda JC
      [] opcode = 219 ->                                        \* 0xdb IN
            Ok(AddCycles([st EXCEPT !.a = inval, !.pc = @ + 1], 10))
      [] opcode = 225 -> pop(st, "hl")                          \* 0xe1 POP H
      [] opcode = 227 -> Xthl(st)                               \* 0xe3 XTHL
      [] opcode = 229 -> push(st, "hl")                         \* 0xe5 PUSH H
      [] opcode = 230 ->                                        \* 0xe6 ANI
            LET x == BitAnd(st.a, arg1)
            IN  Ok(AddCycles([st EXCEPT !.cc.z = B(BitAnd(x, 255) = 0),
                                        !.cc.s = B(BitAnd(x, 128) /= 0),
                                        !.cc.cy = 0,
                                        !.cc.p = parity(BitAnd(x, 255)),
                                        !.a = x,
                                        !.pc = @ + 1], 7))
      [] opcode = 233 ->                                        \* 0xe9 PCHL (no return)
            Ok(AddCycles([st EXCEPT !.pc = hl(st)], 5))
      [] opcode = 235 ->                                        \* 0xeb XCHG
            LET dv == de(st)
                hv == hl(st)
            IN  Ok(AddCycles(SetAttr(SetAttr(st, "hl", dv), "de", hv), 5))
      [] opcode = 241 -> pop(st, "psw")                         \* 0xf1 POP PSW
      [] opcode = 245 -> push(st, "psw")                        \* 0xf5 PUSH PSW
      [] opcode = 251 ->                                        \* 0xfb EI
            Ok(AddCycles([st EXCEPT !.int_enable = 1], 4))
      [] opcode = 254 -> Cpi(st, arg1)                          \* 0xfe CPI
      [] OTHER -> Unmapped(st)                                  \* else: raise

\* the generic trailer `state.pc += 1` (cpu.py:764), skipped by `return`
Trailer(o) ==
    IF o.exc = "none" /\ ~o.ret THEN Ok([o.state EXCEPT !.pc = @ + 1]) ELSE o

\* does the slice memory[pc:pc+3] of emulate() hold three bytes?  It does
\* for 0 <= pc <= len - 3 and, a negative start counting from the end, for
\* -len <= pc <= -4; for pc in -3..-1 the stop pc + 3 is not negative and
\* the slice is empty.
Fetches(st) ==
    \/ st.pc >= 0 /\ st.pc + 3 <= MemLen(st)
    \/ st.pc <= -4 /\ st.pc >= -MemLen(st)

\* the opcodes whose branch reads arg1 or arg2 before it changes the State
OperandFirstOps ==
    {1, 6, 14, 17, 30, 33, 34, 38, 46, 49, 50, 54, 58, 62, 195, 198, 211, 219,
     230, 254}

\* the dispatch of a supplied opcode: arg1 and arg2 were never bound, and
\* the branch raises UnboundLocalError where it first reads one of them. A
\* conditional jump has added its cycles by then and reads them only when
\* taken; CALL has pushed its return address by then.
DispatchUnbound(st, opcode, inval) ==
    CASE opcode \in OperandFirstOps -> Raise(st, "UnboundLocalError")
      [] (opcode = 194 /\ st.cc.z = 0) \/ (opcode = 202 /\ st.cc.z /= 0)
         \/ (opcode = 210 /\ st.cc.cy = 0) \/ (opcode = 218 /\ st.cc.cy /= 0) ->
            Raise(AddCycles(st, 10), "UnboundLocalError")
      [] opcode = 205 ->
            LET hilo == extract_bytes(st.pc + 3)
                o1 == SetItem(st, st.sp - 1, hilo[1])
                o2 == IF Failed(o1) THEN o1
                      ELSE SetItem(o1.state, o1.state.sp - 2, hilo[2])
            IN  IF Failed(o2) THEN o2
                ELSE Raise([o2.state EXCEPT !.sp = @ - 2], "UnboundLocalError")
      [] OTHER -> Dispatch(st, opcode, 0, 0, inval)

\* emulate(state, debug, opcode): given == <<>> is opcode=None, given == <<v>>
\* is a supplied opcode v; `not opcode` also holds for a supplied 0.  The
\* unpacking of a slice shorter than three bytes raises ValueError.
emulate(st, given, inval) ==
    IF given = <<>> \/ given[1] = 0
    THEN IF ~Fetches(st) THEN Raise(st, "ValueError")
         ELSE Trailer(Dispatch(st, Mem(st, st.pc), Mem(st, st.pc + 1),
                               Mem(st, st.pc + 2), inval))
    ELSE Trailer(DispatchUnbound(st, given[1], inval))

(***************************************************************************)
(* The I/O bus.  bus.py is not part of the sources at hand: what main()    *)
(* and emulate() use of it is modelled from section 4.3 of the             *)
(* specification and from Display.refresh (src/devices.py).                *)
(***************************************************************************)
\* Display.refresh(cycles): the two RST vectors once cycles >= 2000000/60
refresh(cycles) == IF cycles * 60 >= 2000000 THEN <<207, 215>> ELSE <<>>

\* bus.loop(cycles): queue the display's vectors when none is pending and
\* report whether a vector is pending
BusLoop(q, cycles) ==
    LET q1 == IF q = <<>> THEN refresh(cycles) ELSE q
    IN  [interrupts |-> q1, pending |-> q1 /= <<>>]

\* bytes bus.read(port) may return
BusReadValues == {0, 129}

(***************************************************************************)
(* The devices of src/devices.py.  A device object is a record of its      *)
(* attributes; a method is an operator from the record (and the arguments) *)
(* to the record after the call, or to the value returned.                 *)
(***************************************************************************)
\* ShiftRegister.__init__
ShiftRegister == [register |-> 0, offset |-> 0]

\* ShiftRegister.get_register
get_register(sr) == BitAnd(Shr(sr.register, sr.offset), 255)

\* ShiftRegister.shift
shift(sr, val) == [sr EXCEPT !.register = BitOr(Shr(sr.register, 8), Shl(val, 7))]

\* ShiftRegister.set_offset
set_offset(sr, val) == [sr EXCEPT !.offset = BitAnd(BitXor(val, 255), 7)]

\* Controller.__init__
Controller == [p1_reg |-> 8, p2_reg |-> 0]

\* Controller.reset
reset(c) == [c EXCEPT !.p1_reg = 8, !.p2_reg = 0]

get_p1(c) == c.p1_reg

get_p2(c) == c.p2_reg

start_p1(c) == [c EXCEPT !.p1_reg = BitOr(@, 4)]

start_p2(c) == [c EXCEPT !.p1_reg = BitOr(@, 2)]

mv_left_p1(c) == [c EXCEPT !.p1_reg = BitOr(@, 32)]

\* a move-left of player 2 written to the register of player 1
mvLeftP2InPlayer1Register(c) == [c EXCEPT !.p1_reg = BitOr(@, 32)]

mv_left_p2(c) == [c EXCEPT !.p2_reg = BitOr(@, 32)]

mv_right_p1(c) == [c EXCEPT !.p1_reg = BitOr(@, 64)]

mv_right_p2(c) == [c EXCEPT !.p2_reg = BitOr(@, 64)]

shoot_p1(c) == [c EXCEPT !.p1_reg = BitOr(@, 16)]

shoot_p2(c) == [c EXCEPT !.p2_reg = BitOr(@, 16)]

add_credit(c) == [c EXCEPT !.p1_reg = BitOr(@, 1)]

\* the module-level table `devices` after import (the display holds no
\* state that changes: see refresh above)
NewDevices == [shft_reg |-> ShiftRegister, ctrl |-> Controller]

\* bus.write(port, val), called by OUT: the device behaviour behind the port
\* runs at once.  The devices that take a byte are the shift register's
\* shift and set_offset; which port carries which is not laid down, and a
\* port may have no device behind it, so each of the three is possible.
\* The result is the method called and the table after the call.
BusWrite(dev, port, val) ==
    { [method |-> "none", dev |-> dev],
      [method |-> "shift",
       dev |-> [dev EXCEPT !.shft_reg = shift(dev.shft_reg, val)]],
      [method |-> "set_offset",
       dev |-> [dev EXCEPT !.shft_reg = set_offset(dev.shft_reg, val)]] }

(***************************************************************************)
(* The state machine: one iteration of the `while 1` loop of main().       *)
(***************************************************************************)
VARIABLES
    state,       \* the State object
    interrupts,  \* bus.interrupts, the deque of pending vectors
    err,         \* the exception that ended main(), "none" while it runs
    hist,        \* the instructions executed so far, newest first, at most
                 \* HistLen: [op, arg1, arg2, pre] with pre the State before
    devices,     \* the table `devices`: the shift register and the controller
    call         \* the last call of a device method: [method, arg, ret, pre]
                 \* with pre the table before the call

vars == <<state, interrupts, err, hist, devices, call>>

\* the first n elements of s
FirstN(s, n) == IF Len(s) <= n THEN s ELSE SubSeq(s, 1, n)

\* the history entry of a normally fetched instruction
Fetched(st) ==
    [op |-> Mem(st, st.pc), arg1 |-> Mem(st, st.pc + 1), arg2 |-> Mem(st, st.pc + 2),
     pre |-> st]

\* one iteration, explored while the cycle counter is below cap.  A pending
\* vector is passed to emulate() as the opcode; a vector 0 makes emulate()
\* fetch at pc all the same (`not opcode`), so the instruction run, its
\* history entry and the bus write of an OUT are those of the fetch.
Loop(cap) ==
    /\ err = "none"
    /\ state.cycles < cap
    /\ \E inval \in BusReadValues :
         LET poll == IF state.int_enable /= 0
                     THEN BusLoop(interrupts, state.cycles)
                     ELSE [interrupts |-> interrupts, pending |-> FALSE]
             \* screen refresh, cycles = 0, emulate(popleft()), continue
             given == IF poll.pending THEN <<Head(poll.interrupts)>> ELSE <<>>
             st0 == IF poll.pending THEN [state EXCEPT !.cycles = 0] ELSE state
             fetch == given = <<>> \/ given[1] = 0
             o == emulate(st0, given, inval)
         IN  /\ state' = o.state
             /\ err' = o.exc
             /\ interrupts' = IF poll.pending THEN Tail(poll.interrupts)
                              ELSE poll.interrupts
             /\ hist' = IF ~fetch
                        THEN FirstN(<<[op |-> given[1], arg1 |-> 0, arg2 |-> 0,
                                       pre |-> state]>> \o hist, HistLen)
                        ELSE IF Fetches(st0)
                        THEN FirstN(<<[Fetched(st0) EXCEPT !.pre = state]>> \o hist,
                                    HistLen)
                        ELSE hist
             /\ IF fetch /\ Fetches(st0) /\ Mem(st0, st0.pc) = 211
                THEN \* OUT: bus.write(arg1, state.a)
                     \E w \in BusWrite(devices, Mem(st0, st0.pc + 1), st0.a) :
                         /\ devices' = w.dev
                         /\ call' = [method |-> w.method, arg |-> st0.a,
                                     ret |-> 0, pre |-> devices]
                ELSE UNCHANGED <<devices, call>>

MainLoop == Loop(MaxCycles)

Next == MainLoop

\* the state after State(rom) for a ROM image rom
Loaded(rom) ==
    /\ state = NewState(rom)
    /\ interrupts = <<>>
    /\ err = "none"
    /\ hist = <<>>
    /\ devices = NewDevices
    /\ call = [method |-> "none", arg |-> 0, ret |-> 0, pre |-> NewDevices]

(***************************************************************************)
(* ROM images.  Every specification below loads one image of a family and  *)
(* runs main() on it.                                                      *)
(***************************************************************************)
\* operand bytes tried
ByteVals == {0, 1, 3, 5, 15, 127, 128, 255}

\* LXI SP,s ; LXI rp,hi:lo ; PUSH rp ; POP rp   for rp = BC, DE, HL
StackPrograms ==
    { <<49, s, 0, t[1], lo, hi, t[2], t[3]>> :
        s \in 0..(RamSize + 10), lo \in {0, 1, 128, 255}, hi \in {0, 2, 128, 255},
        t \in {<<1, 197, 193>>, <<17, 213, 209>>, <<33, 229, 225>>} }

InitStack == \E rom \in StackPrograms : Loaded(rom)

SpecStack == InitStack /\ [][Next]_vars

(***************************************************************************)
(* C1: PUSH rp immediately followed by POP rp.                             *)
(***************************************************************************)
\* register pair, its PUSH opcode, its POP opcode
PairOps == {<<"bc", 197, 193>>, <<"de", 213, 209>>, <<"hl", 229, 225>>}

\* the last two instructions executed were PUSH t, POP t, both completed,
\* the PUSH from a pair value in 0..0xFFFF and an SP with SP-2, SP-1 in memory
PushThenPop(t) ==
    /\ err = "none"
    /\ Len(hist) >= 2
    /\ hist[1].op = t[3]
    /\ hist[2].op = t[2]
    /\ hist[2].pre.sp - 2 >= 0
    /\ hist[2].pre.sp - 1 < MemLen(hist[2].pre)
    /\ GetAttr(hist[2].pre, t[1]) \in 0..65535

\* C1: for BC, DE and HL, every pair value 0..0xFFFF and every SP with SP-2
\* and SP-1 inside memory, PUSH of the pair immediately followed by POP of
\* the same pair leaves the pair equal to its value before the PUSH and SP
\* equal to its value before the PUSH.
C1_PushPopRoundTrip ==
    \A t \in PairOps :
        PushThenPop(t) =>
            /\ GetAttr(state, t[1]) = GetAttr(hist[2].pre, t[1])
            /\ state.sp = hist[2].pre.sp

\* a PUSH D / POP D round trip of the pair value 0x8001 has been executed
C1_Witness ==
    /\ PushThenPop(<<"de", 213, 209>>)
    /\ de(hist[2].pre) = 32769
    /\ de(state) = 32769

(***************************************************************************)
(* C2: CALL then RET.                                                      *)
(***************************************************************************)
\* n NOPs ; LXI SP,s ; CALL t ; RET ; NOP ; RET      for n = 0, 1, 2
CallPrograms ==
    { pad \o <<49, s, 0, 205, t, 0, 201, 0, 201>> :
        pad \in {<<>>, <<0>>, <<0, 0>>}, s \in 0..(RamSize + 13), t \in 0..(RamSize + 13) }

InitCall == \E rom \in CallPrograms : Loaded(rom)

SpecCall == InitCall /\ [][Next]_vars

\* the State after the k-th newest instruction of hist
After(k) == IF k = 1 THEN state ELSE hist[k - 1].pre

\* the k-th newest instruction left SP and the two bytes at the stack top alone
NoStackChange(k) ==
    /\ After(k).sp = hist[k].pre.sp
    /\ ValidIndex(hist[k].pre, hist[k].pre.sp) /\ ValidIndex(hist[k].pre, hist[k].pre.sp + 1)
    /\ Mem(After(k), hist[k].pre.sp) = Mem(hist[k].pre, hist[k].pre.sp)
    /\ Mem(After(k), hist[k].pre.sp + 1) = Mem(hist[k].pre, hist[k].pre.sp + 1)

\* the newest instruction is a completed RET, the k-th newest the CALL it
\* returns from, and nothing in between changed the stack
CallThenRet(k) ==
    /\ err = "none"
    /\ k \in 2..Len(hist)
    /\ hist[1].op = 201
    /\ hist[k].op = 205
    /\ \A j \in 2..(k - 1) : NoStackChange(j)

\* C2: for every CALL at address p with any target, CALL and then RET with no
\* other stack change in between leaves PC = p + 3, the address of the
\* instruction after the CALL, and SP equal to its value before the CALL.
C2_CallRetReturns ==
    \A k \in 2..HistLen :
        CallThenRet(k) =>
            /\ state.pc = hist[k].pre.pc + 3
            /\ state.sp = hist[k].pre.sp

\* a CALL at address 4 has been returned from through a NOP and a RET, with a
\* stack inside the RAM
C2_Witness ==
    /\ CallThenRet(3)
    /\ hist[3].pre.pc = 4
    /\ hist[2].op = 0
    /\ hist[3].pre.sp >= 13
    /\ state.pc = 7

(***************************************************************************)
(* C3, C4, C5: flags of the 8-bit arithmetic and logical operations.       *)
(***************************************************************************)
\* ADD B/C/M, ANA A, XRA A, ORA B/E/M, ADI, ANI, CPI, INR B/C/D/E/H,
\* DCR B/C/D/E/H/M/A
AluOps ==
    {128, 129, 134, 167, 175, 176, 179, 182, 198, 230, 254,
     4, 12, 20, 28, 36, 5, 13, 21, 29, 37, 53, 61}

\* MVI A,x ; LXI B,y:y ; LXI D,y:y ; LXI H,12 ; op y   (the cell at HL holds y)
\* MVI A,x ; RLC ; MVI B,y ; op y                       (accumulator after RLC)
AluPrograms ==
    { <<62, x, 1, y, y, 17, y, y, 33, 12, 0, op, y>> :
        x \in ByteVals, y \in ByteVals, op \in AluOps }
    \cup
    { <<62, x, 7, 6, y, op, y>> :
        x \in {1, 128, 192}, y \in {0, 1, 128}, op \in {128, 167, 175, 176, 198, 230, 254, 61} }

\* LXI B,v ; LXI D,w ; LXI H,u ; STC or NOP ; DAD B/D/H
DadPrograms ==
    { <<1, v[1], v[2], 17, w[1], w[2], 33, u[1], u[2], c, op>> :
        v \in {<<0, 0>>, <<1, 0>>, <<255, 255>>},
        w \in {<<0, 0>>, <<0, 128>>},
        u \in {<<0, 0>>, <<255, 255>>, <<0, 128>>, <<255, 127>>},
        c \in {0, 55}, op \in {9, 25, 41} }

InitAlu == \E rom \in AluPrograms \cup DadPrograms : Loaded(rom)

SpecAlu == InitAlu /\ [][Next]_vars

\* the newest instruction has opcode in ops and completed
JustDid(ops) == err = "none" /\ Len(hist) >= 1 /\ hist[1].op \in ops

\* the untruncated answer of the 8-bit operation of history entry e, from
\* the State before it and its operand byte
AluAnswer(e) ==
    LET st == e.pre
        op == e.op
    IN  CASE op = 128 -> st.a + st.b
          [] op = 129 -> st.a + st.c
          [] op = 134 -> st.a + Mem(st, hl(st))
          [] op = 198 -> st.a + e.arg1
          [] op = 167 -> BitAnd(st.a, st.a)
          [] op = 175 -> BitXor(st.a, st.a)
          [] op = 176 -> BitOr(st.a, st.b)
          [] op = 179 -> BitOr(st.a, st.e)
          [] op = 182 -> BitOr(st.a, Mem(st, hl(st)))
          [] op = 230 -> BitAnd(st.a, e.arg1)
          [] op = 254 -> st.a - e.arg1
          [] op = 4 -> st.b + 1
          [] op = 12 -> st.c + 1
          [] op = 20 -> st.d + 1
          [] op = 28 -> st.e + 1
          [] op = 36 -> st.h + 1
          [] op = 5 -> st.b - 1
          [] op = 13 -> st.c - 1
          [] op = 21 -> st.d - 1
          [] op = 29 -> st.e - 1
          [] op = 37 -> st.h - 1
          [] op = 53 -> Mem(st, hl(st)) - 1
          [] op = 61 -> st.a - 1

\* the answer truncated to 8 bits
Truncated(e) == AluAnswer(e) % 256

\* C3: after every 8-bit arithmetic or logical operation that updates flags
\* (ADD, ADI, ANA, ORA, XRA, ANI, CPI, INR, DCR), Zero is true exactly when
\* the result truncated to 8 bits is 0 and Sign is true exactly when bit 7
\* of the truncated result is set.
C3_ZeroSignFlags ==
    JustDid(AluOps) =>
        /\ (state.cc.z /= 0) <=> (Truncated(hist[1]) = 0)
        /\ (state.cc.s /= 0) <=> (Truncated(hist[1]) >= 128)

\* ADD B has just turned 0xFF + 1 into a zero result with Zero set and Sign clear
C3_Witness ==
    /\ JustDid({128})
    /\ hist[1].pre.a = 255 /\ hist[1].pre.b = 1
    /\ state.a = 0 /\ state.cc.z = 1 /\ state.cc.s = 0

\* number of set bits of n >= 0
RECURSIVE Popcount(_)
Popcount(n) == IF n = 0 THEN 0 ELSE (n % 2) + Popcount(n \div 2)

\* C4: after every 8-bit arithmetic or logical operation that updates flags,
\* Parity is true exactly when the number of set bits of the 8-bit truncated
\* result is even; in particular ADD B with A = 0x05, B = 0x03 gives A = 0x08
\* with Parity false.
C4_ParityIsEvenPopcount ==
    JustDid(AluOps) =>
        ((state.cc.p /= 0) <=> (Popcount(Truncated(hist[1])) % 2 = 0))

\* C5: after ADD and ADI Carry is true exactly when the untruncated sum of
\* accumulator and operand exceeds 0xFF; after DAD Carry is true exactly when
\* the untruncated sum of HL and the pair exceeds 0xFFFF, and DAD leaves
\* Z, S and P unchanged.
C5_CarryOfAdditions ==
    /\ JustDid({128, 129, 134, 198}) =>
           ((state.cc.cy /= 0) <=> (AluAnswer(hist[1]) > 255))
    /\ \A t \in {<<9, "bc">>, <<25, "de">>, <<41, "hl">>} :
           JustDid({t[1]}) =>
               /\ (state.cc.cy /= 0) <=>
                      (hl(hist[1].pre) + GetAttr(hist[1].pre, t[2]) > 65535)
               /\ state.cc.z = hist[1].pre.cc.z
               /\ state.cc.s = hist[1].pre.cc.s
               /\ state.cc.p = hist[1].pre.cc.p

\* DAD B has just added 0xFFFF to HL = 0x8000 with Carry clear before: Carry set
C5_Witness ==
    /\ JustDid({9})
    /\ hl(hist[1].pre) = 32768 /\ bc(hist[1].pre) = 65535
    /\ hist[1].pre.cc.cy = 0
    /\ state.cc.cy = 1 /\ hl(state) = 32767

(***************************************************************************)
(* C6: eight RLC, eight RRC.                                               *)
(***************************************************************************)
\* MVI A,x ; STC or NOP ; eight times RLC, or eight times RRC, for every byte
\* x, with the Carry an 8080 leaves after the eight rotations: bit 0 of x
\* for RLC, bit 7 of x for RRC
RotatePrograms ==
    { <<62, x, IF x % 2 = 1 THEN 55 ELSE 0, 7, 7, 7, 7, 7, 7, 7, 7>> : x \in 0..255 }
    \cup
    { <<62, x, IF x >= 128 THEN 55 ELSE 0, 15, 15, 15, 15, 15, 15, 15, 15>> : x \in 0..255 }

InitRotate == \E rom \in RotatePrograms : Loaded(rom)

SpecRotate == InitRotate /\ [][Next]_vars

\* the eight newest instructions are completed rotations op, started from a
\* byte in the accumulator
EightTimes(op) ==
    /\ err = "none"
    /\ Len(hist) >= 8
    /\ \A k \in 1..8 : hist[k].op = op
    /\ hist[8].pre.a \in 0..255

\* C6: for every accumulator value 0..0xFF and every initial Carry, RLC eight
\* times in a row, or RRC eight times in a row, leaves the accumulator equal
\* to its original byte and Carry equal to its original value.
C6_RotateEightTimes ==
    \A op \in {7, 15} :
        EightTimes(op) =>
            /\ state.a = hist[8].pre.a
            /\ (state.cc.cy /= 0) <=> (hist[8].pre.cc.cy /= 0)

(***************************************************************************)
(* C7 - C10: PC bookkeeping and errors, over every opcode byte.            *)
(***************************************************************************)
\* a prelude, then the opcode byte op with operand bytes a1, a2; the preludes
\* are: none; LXI SP,14 ; LXI H,12; LXI SP,11 ; STC; LXI SP,11 ; XRA A;
\* MVI A,0x80 ; RLC
OpPreludes ==
    {<<>>, <<49, 14, 0, 33, 12, 0>>, <<49, 11, 0, 55>>, <<49, 11, 0, 175>>, <<62, 128, 7>>}

OpPrograms ==
    { pre \o <<op, a1, a2>> :
        pre \in OpPreludes, op \in 0..255, a1 \in {0, 2, 200}, a2 \in {0, 1} }

InitOps == \E rom \in OpPrograms : Loaded(rom)

SpecOps == InitOps /\ [][Next]_vars

\* exceptions of an access outside the memory array, of a fetch past its
\* end, or of a value no byte can hold: the fatal out-of-range error of the
\* error taxonomy
MemoryErrors == {"IndexError", "ValueError"}

\* the condition of a conditional jump or return op holds in State st
Taken(st, op) ==
    CASE op \in {194} -> st.cc.z = 0
      [] op \in {202, 200} -> st.cc.z /= 0
      [] op \in {210} -> st.cc.cy = 0
      [] op \in {218, 216} -> st.cc.cy /= 0
      [] OTHER -> TRUE

\* JMP, CALL, RET, RST 1, RST 2, PCHL and the conditional jumps and returns
BranchOps == {195, 205, 201, 207, 215, 233, 194, 202, 210, 218, 200, 216}

\* history entry e is a mapped opcode that does not branch: no branch
\* opcode, or a conditional one whose condition is false
NonBranching(e) ==
    /\ e.op \in MappedOpcodes
    /\ e.op \in BranchOps => ~Taken(e.pre, e.op)

\* number of operand bytes of a non-branching opcode
OperandBytes(op) ==
    IF op \in {1, 17, 33, 49, 34, 50, 58, 194, 202, 210, 218} THEN 2
    ELSE IF op \in {6, 14, 22, 30, 38, 46, 54, 62, 198, 230, 254, 219, 211} THEN 1
    ELSE 0

\* C7: for every mapped non-branching opcode (including a conditional jump or
\* return whose condition is false), one execution step increases PC by
\* exactly 1 + k, k the number of operand bytes: 2 for LXI, SHLD, STA, LDA and
\* Jcc, 1 for MVI, ADI, ANI, CPI, IN and OUT, 0 for all others.  (A step that
\* ends in the fatal out-of-range memory error is not counted.)
C7_PcAdvance ==
    (Len(hist) >= 1 /\ NonBranching(hist[1]) /\ err \notin MemoryErrors) =>
        state.pc = hist[1].pre.pc + 1 + OperandBytes(hist[1].op)

\* the address a completed branch of history entry e must leave in PC
BranchTarget(e) ==
    CASE e.op \in {195, 205, 194, 202, 210, 218} -> merge_bytes(e.arg2, e.arg1)
      [] e.op \in {201, 200, 216} ->
            merge_bytes(Mem(e.pre, e.pre.sp + 1), Mem(e.pre, e.pre.sp))
      [] e.op = 207 -> 8
      [] e.op = 215 -> 16
      [] e.op = 233 -> hl(e.pre)

\* C8: every operation that sets PC itself skips the generic +1 advance, so
\* that after the step PC equals the target exactly: the operand address for
\* JMP, CALL and a taken Jcc, the popped address for RET and a taken
\* conditional return, 8n for RST n, and the value of HL for PCHL.
C8_BranchTargetExact ==
    (JustDid(BranchOps) /\ Taken(hist[1].pre, hist[1].op)) =>
        state.pc = BranchTarget(hist[1])

\* C9: executing an opcode byte that has no mapping yields a fatal error
\* surfaced to the caller; the processor state (registers, flags, PC, SP,
\* memory, cycle counter, interrupt-enable) is unchanged by that step, PC
\* still addresses the offending opcode, and no further instruction executes.
C9_DecodeErrorIsFatal ==
    \A k \in 1..Len(hist) :
        hist[k].op \notin MappedOpcodes =>
            /\ k = 1
            /\ err = "NotImplementedError"
            /\ state = hist[1].pre
            /\ Mem(state, state.pc) = hist[1].op

\* the unmapped opcode 0x08 was met after two executed instructions and
\* ended the run with PC on it
C9_Witness ==
    /\ Len(hist) = 3
    /\ hist[1].op = 8
    /\ err = "NotImplementedError"
    /\ state.pc = 6 /\ Mem(state, 6) = 8
    /\ state.cycles = 20

\* C10: the decode error is the only error the core raises: executing an
\* opcode that has a mapping (including DAA 0x27 and MVI D 0x16) completes
\* its step without raising any error.  (The fatal out-of-range memory error
\* is not counted.)
C10_MappedOpcodesComplete ==
    (Len(hist) >= 1 /\ hist[1].op \in MappedOpcodes) =>
        err \in {"none"} \cup MemoryErrors

(***************************************************************************)
(* C11: ranges of the registers and flags.                                 *)
(***************************************************************************)
\* C11: in every state reachable from the zeroed initial state by mapped
\* instructions, each of A, B, C, D, E, H, L is in 0..255, SP and PC are in
\* 0..0xFFFF, and each of the flags Z, S, P, CY, AC is a boolean (0 or 1).
C11_RegistersInRange ==
    /\ \A r \in {"a", "b", "c", "d", "e", "h", "l"} : GetAttr(state, r) \in 0..255
    /\ state.sp \in 0..65535
    /\ state.pc \in 0..65535
    /\ \A f \in {"z", "s", "p", "cy", "ac"} : state.cc[f] \in {0, 1}

(***************************************************************************)
(* C12: stack accesses outside the memory array.                           *)
(***************************************************************************)
\* PUSH B/D/H/PSW, CALL, RST 1, RST 2: write memory[SP-1] and memory[SP-2]
StackWriteOps == {197, 213, 229, 245, 205, 207, 215}

\* POP B/D/H/PSW, RET, RZ, RC: read memory[SP] and memory[SP+1]
StackReadOps == {193, 209, 225, 241, 201, 200, 216}

\* i is an address of a cell of the memory array of st
InMemory(st, i) == i \in 0..(MemLen(st) - 1)

\* history entry e is a stack operation one of whose two stack addresses is
\* outside the memory array
StackAccessOutOfRange(e) ==
    \/ /\ e.op \in StackWriteOps
       /\ ~(InMemory(e.pre, e.pre.sp - 1) /\ InMemory(e.pre, e.pre.sp - 2))
    \/ /\ e.op \in StackReadOps
       /\ Taken(e.pre, e.op)
       /\ ~(InMemory(e.pre, e.pre.sp) /\ InMemory(e.pre, e.pre.sp + 1))

\* C12: whenever PUSH, CALL or RST is executed with SP-1 or SP-2 outside
\* 0..len(memory)-1, or POP or RET with SP or SP+1 outside that range, the
\* step ends in a fatal error instead of reading or writing a wrapped cell.
C12_StackAccessInRange ==
    (Len(hist) >= 1 /\ StackAccessOutOfRange(hist[1])) => err /= "none"

(***************************************************************************)
(* C13, C14, C20: interrupts of the display timer.  The programs run long  *)
(* enough for the cycle counter to reach the refresh threshold.            *)
(***************************************************************************)
\* LXI SP,top ; JMP 18 ; at 8 (the RST 1 vector): h1 ; RET ; at 16 (the RST 2
\* vector): h2 ; RET ; at 18 the main code.  h1, h2 are EI or NOP.  The main
\* code is one of
\*     x ; JMP 18                           x is EI or NOP
\*     LXI B,2222 ; DCX B ; JNZ 21 ; EI ; JMP 25
\* the second one enabling interrupts only after the threshold has passed.
FrameMains ==
    {<<x, 195, 18, 0>> : x \in {251, 0}}
        \cup {<<1, 174, 8, 11, 194, 21, 0, 251, 195, 25, 0>>}

FramePrograms ==
    { <<49, 18 + Len(main) + RamSize, 0, 195, 18, 0, 0, 0,
        h1, 201, 0, 0, 0, 0, 0, 0, h2, 201>> \o main :
        h1 \in {251, 0}, h2 \in {251, 0}, main \in FrameMains }

FrameLoop == Loop(MaxFrameCycles)

InitFrame == \E rom \in FramePrograms : Loaded(rom)

SpecFrame == InitFrame /\ [][FrameLoop]_vars

\* a step of the loop in which a vector left bus.interrupts: the loop took
\* its interrupt branch (the queue changes in no other step)
InterruptStep == interrupts' /= interrupts

\* the display has signalled: a vector is queued, or refresh() returns some
TimerSignalled == interrupts /= <<>> \/ refresh(state.cycles) /= <<>>

\* C13: the loop dispatches an interrupt vector only between two
\* instructions, only when the interrupt-enable flag is true and the display
\* timer has signalled a pending interrupt; the dispatch executes exactly one
\* synthetic RST without a memory fetch (the return address pushed is the PC
\* of the instruction not fetched, PC becomes 8 or 16, the cycle counter
\* holds the 11 cycles of push() and the 11 of rst()) and clears the
\* interrupt-enable flag, which only a fetched EI sets again.
C13_InterruptDispatch ==
    [][ /\ InterruptStep =>
            /\ state.int_enable /= 0
            /\ TimerSignalled
            /\ state'.int_enable = 0
            /\ hist'[1].op \in {207, 215} /\ hist'[1].pre = state
            /\ err' = "none" =>
                 /\ state'.pc = IF hist'[1].op = 207 THEN 8 ELSE 16
                 /\ state'.sp = state.sp - 2
                 /\ merge_bytes(Mem(state', state'.sp + 1), Mem(state', state'.sp))
                        = state.pc
                 /\ state'.cycles = 22
        /\ (state.int_enable = 0 /\ state'.int_enable /= 0) =>
            /\ ~InterruptStep
            /\ Fetches(state) /\ Mem(state, state.pc) = 251
      ]_vars

\* the RST 1 vector was dispatched at the first poll past the threshold,
\* instead of the EI at address 18, and left interrupts disabled
C13_Witness ==
    /\ err = "none"
    /\ Len(hist) >= 1
    /\ hist[1].op = 207
    /\ hist[1].pre.pc = 18 /\ Mem(hist[1].pre, 18) = 251
    /\ hist[1].pre.int_enable = 1
    /\ hist[1].pre.cycles * 60 >= 2000000
    /\ state.pc = 8
    /\ state.int_enable = 0
    /\ state.cycles = 22

\* C14: the display timer raises its interrupt exactly once per threshold
\* crossing of the cycle counter: every vector that is serviced is serviced
\* at a poll where the counter has reached 2000000/60, and it is the only
\* one pending for that crossing: none is left queued behind it.
C14_OneInterruptPerCrossing ==
    [][ InterruptStep =>
            /\ state.cycles * 60 >= 2000000
            /\ interrupts' = <<>>
      ]_vars

(***************************************************************************)
(* The devices on their own: the methods of the shift register and of the  *)
(* controller, called in any order with any of the arguments tried.        *)
(***************************************************************************)
\* a call of a device method that leaves the table dev and returns ret
DeviceCall(method, arg, ret, dev) ==
    /\ devices' = dev
    /\ call' = [method |-> method, arg |-> arg, ret |-> ret, pre |-> devices]
    /\ UNCHANGED <<state, interrupts, err, hist>>

\* devices['shft_reg'].shift(val)
Shift ==
    \E val \in ByteVals :
        DeviceCall("shift", val, 0,
                   [devices EXCEPT !.shft_reg = shift(devices.shft_reg, val)])

\* devices['shft_reg'].set_offset(val)
SetOffset ==
    \E val \in 0..7 :
        DeviceCall("set_offset", val, 0,
                   [devices EXCEPT !.shft_reg = set_offset(devices.shft_reg, val)])

\* devices['shft_reg'].get_register()
GetRegister ==
    DeviceCall("get_register", 0, get_register(devices.shft_reg), devices)

ShiftNext == Shift \/ SetOffset \/ GetRegister

\* the devices after import, no program loaded
InitDevices == Loaded(<<>>)

SpecShift == InitDevices /\ [][ShiftNext]_vars

(***************************************************************************)
(* C15: the shift register.                                                *)
(***************************************************************************)
\* C15: for every shift-register value and every byte b, shift drops the old
\* low byte, moves the old high byte into the low byte and makes b the new
\* high byte (register' >> 8 = b); and get_register returns the byte
\* (register >> offset) & 0xFF, offset being (v XOR 0xFF) & 0x07 after
\* set_offset(v).
C15_ShiftInsertsHighByte ==
    /\ call.method = "shift" =>
         /\ Shr(devices.shft_reg.register, 8) = call.arg
         /\ devices.shft_reg.register % 256 = Shr(call.pre.shft_reg.register, 8) % 256
    /\ call.method = "set_offset" =>
         devices.shft_reg.offset = 7 - (call.arg % 8)
    /\ call.method = "get_register" =>
         call.ret = (devices.shft_reg.register \div 2 ^ devices.shft_reg.offset) % 256

(***************************************************************************)
(* C16: PUSH PSW and POP PSW.                                              *)
(***************************************************************************)
\* LXI SP,s ; LXI B,a:f ; PUSH B ; POP PSW ; PUSH PSW ; POP PSW
\*     which loads A and the flags from the bytes a and f, and
\* LXI SP,s ; MVI A,x ; op ; PUSH PSW ; POP PSW
\*     for op one of NOP, RLC, RRC, RAL, STC, ANA A, XRA A
PswPrograms ==
    { <<49, s, 0, 1, f, a, 197, 241, 245, 241>> :
        s \in {12, 10 + RamSize}, f \in (0..31) \cup {255}, a \in ByteVals }
    \cup
    { <<49, s, 0, 62, x, op, 245, 241>> :
        s \in {10, 8 + RamSize}, x \in ByteVals, op \in {0, 7, 15, 23, 55, 167, 175} }

InitPsw == \E rom \in PswPrograms : Loaded(rom)

SpecPsw == InitPsw /\ [][Next]_vars

\* the flags of State st as the byte bit0=Z, bit1=S, bit2=P, bit3=CY, bit4=AC
PackedFlags(st) ==
    B(st.cc.z /= 0) + 2 * B(st.cc.s /= 0) + 4 * B(st.cc.p /= 0)
        + 8 * B(st.cc.cy /= 0) + 16 * B(st.cc.ac /= 0)

\* C16: PUSH PSW packs the flags into the low byte as bit0=Z, bit1=S, bit2=P,
\* bit3=CY, bit4=AC with the accumulator as the high byte, and from every
\* reachable state PUSH PSW immediately followed by POP PSW restores the
\* accumulator and all five flags to their values before the PUSH and
\* leaves SP unchanged.
C16_PswRoundTrip ==
    /\ JustDid({245}) =>
         /\ Mem(state, state.sp) = PackedFlags(hist[1].pre)
         /\ Mem(state, state.sp + 1) = hist[1].pre.a
    /\ (JustDid({241}) /\ Len(hist) >= 2 /\ hist[2].op = 245) =>
         /\ state.a = hist[2].pre.a
         /\ PackedFlags(state) = PackedFlags(hist[2].pre)
         /\ state.sp = hist[2].pre.sp

(***************************************************************************)
(* C17: CPI.                                                               *)
(***************************************************************************)
\* MVI A,a ; CPI d    for every byte a and d among the bytes tried and
\* a, a+1, a-1 (mod 256)
CpiPrograms ==
    { <<62, a, 254, d>> : a \in 0..255, d \in ByteVals }
    \cup
    { <<62, a, 254, (a + k) % 256>> : a \in 0..255, k \in {0, 1, 255} }

InitCpi == \E rom \in CpiPrograms : Loaded(rom)

SpecCpi == InitCpi /\ [][Next]_vars

\* C17: for all accumulator values a in 0..255 and operand bytes d, CPI
\* leaves the accumulator equal to a, sets Zero exactly when a = d and sets
\* Carry exactly when a < d (unsigned); in particular a = 0x05, d = 0x05
\* gives Zero = true and Carry = false.
C17_CpiCompares ==
    (JustDid({254}) /\ hist[1].pre.a \in 0..255) =>
        /\ state.a = hist[1].pre.a
        /\ state.cc.z = B(hist[1].pre.a = hist[1].arg1)
        /\ state.cc.cy = B(hist[1].pre.a < hist[1].arg1)

\* CPI 0x05 was executed with the accumulator at 0x05 and gave Zero = true,
\* Carry = false
C17_Witness ==
    /\ JustDid({254})
    /\ hist[1].pre.a = 5 /\ hist[1].arg1 = 5
    /\ state.a = 5 /\ state.cc.z = 1 /\ state.cc.cy = 0

(***************************************************************************)
(* C18: the input controller.                                              *)
(***************************************************************************)
\* a call of a controller method that leaves the controller c
ControllerCall(method, c) ==
    DeviceCall(method, 0, 0, [devices EXCEPT !.ctrl = c])

Reset == ControllerCall("reset", reset(devices.ctrl))

GetP1 == DeviceCall("get_p1", 0, get_p1(devices.ctrl), devices)

GetP2 == DeviceCall("get_p2", 0, get_p2(devices.ctrl), devices)

StartP1 == ControllerCall("start_p1", start_p1(devices.ctrl))

StartP2 == ControllerCall("start_p2", start_p2(devices.ctrl))

MvLeftP1 == ControllerCall("mv_left_p1", mv_left_p1(devices.ctrl))

MvLeftP2 == ControllerCall("mv_left_p2", mv_left_p2(devices.ctrl))

MvRightP1 == ControllerCall("mv_right_p1", mv_right_p1(devices.ctrl))

MvRightP2 == ControllerCall("mv_right_p2", mv_right_p2(devices.ctrl))

ShootP1 == ControllerCall("shoot_p1", shoot_p1(devices.ctrl))

ShootP2 == ControllerCall("shoot_p2", shoot_p2(devices.ctrl))

AddCredit == ControllerCall("add_credit", add_credit(devices.ctrl))

ControllerNext ==
    \/ Reset \/ GetP1 \/ GetP2
    \/ StartP1 \/ StartP2
    \/ MvLeftP1 \/ MvLeftP2
    \/ MvRightP1 \/ MvRightP2
    \/ ShootP1 \/ ShootP2
    \/ AddCredit

SpecController == InitDevices /\ [][ControllerNext]_vars

\* the last call left the register of player 1 as it was
Player1RegisterKept == devices.ctrl.p1_reg = call.pre.ctrl.p1_reg

\* the last call left the register of player 2 as it was
Player2RegisterKept == devices.ctrl.p2_reg = call.pre.ctrl.p2_reg

\* C18 as claimed: after any sequence of input events, every player-2 event
\* (start, move-left, move-right, shoot) leaves the player-1 register
\* unchanged, and every player-1 event and the credit event leaves the
\* player-2 register unchanged.
C18_RegistersIndependent ==
    /\ call.method \in {"start_p2", "mv_left_p2", "mv_right_p2", "shoot_p2"} =>
         Player1RegisterKept
    /\ call.method \in {"start_p1", "mv_left_p1", "mv_right_p1", "shoot_p1", "add_credit"} =>
         Player2RegisterKept

\* C18 as amended: the move-left, move-right and shoot events of player 2
\* set their bit in the player-2 register and leave the player-1 register
\* unchanged; the start event of player 2 sets bit 0x02 of the player-1
\* register and leaves the player-2 register unchanged; every player-1 event
\* and the credit event leaves the player-2 register unchanged.
C18_RegistersIndependentButStart ==
    /\ call.method \in {"mv_left_p2", "mv_right_p2", "shoot_p2"} =>
         /\ Player1RegisterKept
         /\ devices.ctrl.p2_reg \in
                {BitOr(call.pre.ctrl.p2_reg, bit) : bit \in {16, 32, 64}}
    /\ call.method = "start_p2" =>
         /\ devices.ctrl.p1_reg = BitOr(call.pre.ctrl.p1_reg, 2)
         /\ Player2RegisterKept
    /\ call.method \in {"start_p1", "mv_left_p1", "mv_right_p1", "shoot_p1", "add_credit"} =>
         Player2RegisterKept

\* player 2 moved left after player 1 had started and shot: the player-2
\* register gained 0x20 and the player-1 register kept 0x1C
C18_Witness ==
    /\ call.method = "mv_left_p2"
    /\ call.pre.ctrl.p1_reg = 28
    /\ call.pre.ctrl.p2_reg = 0
    /\ devices.ctrl.p1_reg = 28
    /\ devices.ctrl.p2_reg = 32

(***************************************************************************)
(* C19: increments, decrements and the Carry flag.                         *)
(***************************************************************************)
\* the mapped INR (B, C, D, E, H), DCR (B, C, D, E, H, M, A), INX (B, D, H)
\* and DCX (B, D) opcodes
IncDecOps == {4, 12, 20, 28, 36, 5, 13, 21, 29, 37, 53, 61, 3, 19, 35, 11, 27}

\* C19: INR, DCR, INX and DCX never change the Carry flag: for every register
\* or pair value and every prior Carry value (true or false), Carry after
\* the step equals Carry before it.
C19_IncDecKeepCarry ==
    (JustDid(IncDecOps) /\ hist[1].pre.cc.cy \in {0, 1}) =>
        state.cc.cy = hist[1].pre.cc.cy

(***************************************************************************)
(* C20: the cycle counter, over the frame programs and every opcode.       *)
(***************************************************************************)
\* the program loaded is one of the frame programs
FrameProgramLoaded ==
    \E rom \in FramePrograms : FirstN(state.memory, 18) = FirstN(rom, 18)

\* the loop, explored up to the long cap for the frame programs and up to
\* the short one for the others
CycleLoop == Loop(IF FrameProgramLoaded THEN MaxFrameCycles ELSE MaxCycles)

InitCycles == InitFrame \/ InitOps

SpecCycles == InitCycles /\ [][CycleLoop]_vars

\* C20 as claimed: every successfully executed instruction increases the
\* cycle counter by a strictly positive amount, and the counter is set back
\* to 0 only when the loop services a display interrupt, so that it equals 0
\* after each serviced display interrupt.
C20_CyclesResetToZero ==
    [][ err' = "none" =>
            IF InterruptStep THEN state'.cycles = 0
            ELSE state'.cycles > state.cycles
      ]_vars

\* C20 as amended: every successfully executed instruction increases the
\* cycle counter by a strictly positive amount, and the counter is set back
\* to 0 only when the loop services a display interrupt, before the synthetic
\* instruction executes, so that after each serviced display interrupt it
\* equals the cycles of that one instruction, 22.
C20_CyclesMonotoneBetweenResets ==
    [][ err' = "none" =>
            IF InterruptStep THEN state'.cycles = 22
            ELSE state'.cycles > state.cycles
      ]_vars

\* the counter had reached 33340 when the loop serviced RST 1, and it holds
\* 26 after the handler's first instruction, an EI
C20_Witness ==
    /\ err = "none"
    /\ Len(hist) >= 2
    /\ hist[2].op = 207 /\ hist[2].pre.cycles = 33340
    /\ hist[1].op = 251 /\ hist[1].pre.pc = 8 /\ hist[1].pre.cycles = 22
    /\ state.cycles = 26

(***************************************************************************)
(* C21: RST, interrupt entry and the return from the handler.              *)
(***************************************************************************)
\* history entry e is an interrupt entry: an RST that was not fetched
InterruptEntry(e) ==
    /\ e.op \in {207, 215}
    /\ ~(Fetches(e.pre) /\ Mem(e.pre, e.pre.pc) = e.op)

\* the newest instruction is the RET that ends the handler entered at
\* hist[k]: the first RET since then at the stack depth of the entry, the
\* stack never having been shallower in between
ReturnsFromEntry(k) ==
    /\ JustDid({201})
    /\ k \in 2..Len(hist)
    /\ InterruptEntry(hist[k])
    /\ hist[1].pre.sp = hist[k].pre.sp - 2
    /\ \A j \in 2..(k - 1) :
          /\ hist[j].pre.sp <= hist[k].pre.sp - 2
          /\ ~(hist[j].op = 201 /\ hist[j].pre.sp = hist[k].pre.sp - 2)

\* C21: RST n, and interrupt entry through it, pushes the current PC (high
\* byte at SP-1, low byte at SP-2, SP decreased by 2), sets PC to 8n and
\* clears interrupt-enable; and when an interrupt is dispatched while PC = p
\* and the handler later executes RET at the same stack depth, PC returns to
\* exactly p and SP to its value before the interrupt.
C21_RstAndInterruptReturn ==
    /\ JustDid({207, 215}) =>
         /\ Mem(state, hist[1].pre.sp - 1) = extract_bytes(hist[1].pre.pc)[1]
         /\ Mem(state, hist[1].pre.sp - 2) = extract_bytes(hist[1].pre.pc)[2]
         /\ state.sp = hist[1].pre.sp - 2
         /\ state.pc = IF hist[1].op = 207 THEN 8 ELSE 16
         /\ state.int_enable = 0
    /\ \A k \in 2..HistLen :
         ReturnsFromEntry(k) =>
            /\ state.pc = hist[k].pre.pc
            /\ state.sp = hist[k].pre.sp

\* the interrupt RST 1 was entered with PC = 18, its handler enabled
\* interrupts, RST 2 was entered inside it with PC = 9 and returned there,
\* and the RET at 9 has now returned to 18 with SP as before the interrupt
C21_Witness ==
    /\ Len(hist) >= 6
    /\ ReturnsFromEntry(6)
    /\ hist[6].op = 207 /\ hist[6].pre.pc = 18
    /\ hist[4].op = 215 /\ hist[4].pre.pc = 9
    /\ state.pc = 18
    /\ state.sp = hist[6].pre.sp

(***************************************************************************)
(* C22: the truncation of DCR and INR.                                     *)
(***************************************************************************)
\* the register an 8-bit DCR or INR opcode works on ("m": the cell at HL)
IncDecTarget(op) ==
    CASE op \in {4, 5} -> "b"
      [] op \in {12, 13} -> "c"
      [] op \in {20, 21} -> "d"
      [] op \in {28, 29} -> "e"
      [] op \in {36, 37} -> "h"
      [] op = 53 -> "m"
      [] op = 61 -> "a"

\* the value of that register in State st
TargetValue(st, op) ==
    IF IncDecTarget(op) = "m" THEN Mem(st, hl(st)) ELSE GetAttr(st, IncDecTarget(op))

\* the mapped DCR opcodes (B, C, D, E, H, M, A) and INR opcodes (B, C, D, E, H)
DcrOps == {5, 13, 21, 29, 37, 53, 61}

InrOps == {4, 12, 20, 28, 36}

\* C22 as claimed: DCR truncates its result modulo 255 rather than modulo
\* 256, undercounting by one, while INR truncates modulo 256 (stated for a
\* register or cell that holds a byte before the DCR).
C22_DcrModulo255 ==
    /\ (JustDid(DcrOps) /\ TargetValue(hist[1].pre, hist[1].op) \in 0..255) =>
         TargetValue(state, hist[1].op) = (TargetValue(hist[1].pre, hist[1].op) - 1) % 255
    /\ JustDid(InrOps) =>
         TargetValue(state, hist[1].op) = (TargetValue(hist[1].pre, hist[1].op) + 1) % 256

\* C22 as amended: DCR truncates its result with the mask 0xFF, that is
\* modulo 256, the same truncation as INR: DCR of 0x00 gives 0xFF, and
\* nothing is undercounted.
C22_DcrModulo256 ==
    /\ JustDid(DcrOps) =>
         TargetValue(state, hist[1].op) = (TargetValue(hist[1].pre, hist[1].op) - 1) % 256
    /\ JustDid(InrOps) =>
         TargetValue(state, hist[1].op) = (TargetValue(hist[1].pre, hist[1].op) + 1) % 256

\* DCR B was executed with B = 0x00 and left B = 0xFF
C22_Witness ==
    /\ JustDid({5})
    /\ hist[1].pre.b = 0
    /\ state.b = 255

====
